---- MODULE Spec2Model ----
(***************************************************************************)
(* Model of tensorforce/agents/dpg.py (DeterministicPolicyGradient) and of *)
(* tensorforce/core/policies/state_value.py (StateValue).                  *)
(*                                                                         *)
(* Python values are modelled by their repr, as strings: None is "None",   *)
(* the string 'auto' is "'auto'", the float 1e-3 is "0.001", the int 4 is  *)
(* "4".  Dictionaries are functions from key names to values.              *)
(***************************************************************************)
EXTENDS Integers, FiniteSets, Sequences, TLC

\* Largest replay-memory capacity a caller passes.
MaxCapacity == 2
\* Largest batch size a caller passes.
MaxBatch == 2

None == "None"

\* The empty dictionary.
EmptyDict == [k \in {} |-> None]

(***************************************************************************)
(* DeterministicPolicyGradient.__init__: the signature                     *)
(***************************************************************************)

RequiredParams == {"states", "actions", "memory", "batch_size"}

DeprecatedParams == {"estimate_terminal", "critic_network"}

\* The defaults of the signature, by parameter name.
SignatureDefaults ==
    [max_episode_timesteps |-> None,
     network |-> "'auto'", use_beta_distribution |-> "True",
     update_frequency |-> "'batch_size'", start_updating |-> None,
     learning_rate |-> "0.001",
     horizon |-> "1", discount |-> "0.99", predict_terminal_values |-> "False",
     critic |-> "'auto'", critic_optimizer |-> "1.0",
     preprocessing |-> "'linear_normalization'",
     exploration |-> "0.0", variable_noise |-> "0.0",
     l2_regularization |-> "0.0", entropy_regularization |-> "0.0",
     parallel_interactions |-> "1",
     config |-> None, saver |-> None, summarizer |-> None, recorder |-> None,
     estimate_terminal |-> None, critic_network |-> None]

OptionalParams == DOMAIN SignatureDefaults

Params == RequiredParams \cup OptionalParams

\* The defaults the class docstring documents, by option name.
DocDefaults ==
    [network |-> "'auto'", use_beta_distribution |-> "True",
     update_frequency |-> "'batch_size'", start_updating |-> None,
     learning_rate |-> "0.001",
     horizon |-> "1", discount |-> "0.99", predict_terminal_values |-> "False",
     critic |-> None, critic_optimizer |-> "1.0",
     l2_regularization |-> "0.0", entropy_regularization |-> "0.0",
     exploration |-> "0.0", variable_noise |-> "0.0"]

\* Python's binding of a call's keywords to the parameters: a keyword that
\* names a parameter binds it, an omitted optional parameter takes its
\* default, every other keyword is collected in kwargs.
Bind(given) ==
    [p \in Params \cup {"kwargs"} |->
        IF p = "kwargs"
        THEN [k \in (DOMAIN given) \ Params |-> given[k]]
        ELSE IF p \in DOMAIN given THEN given[p] ELSE SignatureDefaults[p]]

(***************************************************************************)
(* Execution of the constructor's body.  A frame holds the local names,    *)
(* the exception raised so far, self.spec and the call made to the parent  *)
(* constructor.  A statement is skipped once an exception is raised.       *)
(***************************************************************************)

NoError == [exc |-> None, message |-> None, name |-> None,
            argument |-> None, replacement |-> None]

\* TensorforceError(message=...)
TensorforceError(message) ==
    [exc |-> "TensorforceError", message |-> message, name |-> None,
     argument |-> None, replacement |-> None]

\* TensorforceError.deprecated(name=..., argument=..., replacement=...)
TensorforceErrorDeprecated(name, argument, replacement) ==
    [exc |-> "TensorforceError.deprecated", message |-> None, name |-> name,
     argument |-> argument, replacement |-> replacement]

\* The frame on entry: the parameters are the locals, nothing else happened.
Enter(a) ==
    [locals |-> a, error |-> NoError,
     spec_assigned |-> FALSE, spec |-> EmptyDict,
     super_called |-> FALSE, super_kwargs |-> EmptyDict]

Raised(f) == f.error.exc # None

\* A variant of the guard that raises nothing.
GuardLifted(f) == f

\* Line 155: raise TensorforceError(message='Temporarily broken.')
Guard(f) ==
    IF Raised(f) THEN f
    ELSE [f EXCEPT !.error = TensorforceError("Temporarily broken.")]

\* Lines 156-163: the two deprecation checks.
DeprecationChecks(f) ==
    IF Raised(f) THEN f
    ELSE IF f.locals.estimate_terminal # None
    THEN [f EXCEPT !.error =
            TensorforceErrorDeprecated("DPG", "estimate_terminal",
                                       "predict_terminal_values")]
    ELSE IF f.locals.critic_network # None
    THEN [f EXCEPT !.error =
            TensorforceErrorDeprecated("DPG", "critic_network", "critic")]
    ELSE f

\* The keys of self.spec other than agent: the recorded parameters.
SpecKeys == Params \ DeprecatedParams

\* A variant that records every parameter, the deprecated ones too.
AssignSpecAllParams(f) ==
    IF Raised(f) THEN f
    ELSE [f EXCEPT !.spec_assigned = TRUE,
                   !.spec = [k \in Params \cup {"agent"} |->
                                IF k = "agent" THEN "'dpg'" ELSE f.locals[k]]]

\* Lines 165-179: self.spec = OrderedDict(agent='dpg', states=states, ...)
AssignSpec(f) ==
    IF Raised(f) THEN f
    ELSE [f EXCEPT !.spec_assigned = TRUE,
                   !.spec = [k \in SpecKeys \cup {"agent"} |->
                                IF k = "agent" THEN "'dpg'" ELSE f.locals[k]]]

\* A variant that always sets the update frequency.
UpdateSpecAlwaysFrequency(batch_size, update_frequency, start_updating) ==
    LET keys == {"unit", "batch_size", "frequency"}
                \cup (IF start_updating # None THEN {"start"} ELSE {})
    IN [k \in keys |->
          CASE k = "unit" -> "'timesteps'"
            [] k = "batch_size" -> batch_size
            [] k = "frequency" -> update_frequency
            [] k = "start" -> start_updating]

\* Lines 188-192: the update dictionary.
UpdateSpec(batch_size, update_frequency, start_updating) ==
    LET keys == {"unit", "batch_size"}
                \cup (IF update_frequency # "'batch_size'" THEN {"frequency"} ELSE {})
                \cup (IF start_updating # None THEN {"start"} ELSE {})
    IN [k \in keys |->
          CASE k = "unit" -> "'timesteps'"
            [] k = "batch_size" -> batch_size
            [] k = "frequency" -> update_frequency
            [] k = "start" -> start_updating]

\* A variant that drops the terminal-value flag of the caller.
RewardEstimationFixedTerminal(horizon, discount, predict_terminal_values) ==
    [horizon |-> horizon, discount |-> discount,
     predict_horizon_values |-> "'late'", estimate_advantage |-> "False",
     predict_action_values |-> "True",
     predict_terminal_values |-> "False"]

\* Lines 197-201: the reward_estimation dictionary.
RewardEstimation(horizon, discount, predict_terminal_values) ==
    [horizon |-> horizon, discount |-> discount,
     predict_horizon_values |-> "'late'", estimate_advantage |-> "False",
     predict_action_values |-> "True",
     predict_terminal_values |-> predict_terminal_values]

\* The names the nested sub-specifications are bound to.
NestedNames == {"policy", "memory", "update", "optimizer", "objective",
                "reward_estimation", "baseline", "baseline_optimizer",
                "baseline_objective"}

\* Lines 181-205: the nested sub-specifications, bound to local names; the
\* local name memory is rebound from the capacity to the replay dictionary.
BuildNested(f) ==
    IF Raised(f) THEN f
    ELSE LET l == f.locals
             new ==
               [policy |-> [type |-> "'parametrized_distributions'",
                            network |-> l.network, temperature |-> "0.0",
                            use_beta_distribution |-> l.use_beta_distribution],
                memory |-> [type |-> "'replay'", capacity |-> l.memory],
                update |-> UpdateSpec(l.batch_size, l.update_frequency,
                                      l.start_updating),
                optimizer |-> [type |-> "'adam'",
                               learning_rate |-> l.learning_rate],
                objective |-> "'deterministic_policy_gradient'",
                reward_estimation |-> RewardEstimation(l.horizon, l.discount,
                                          l.predict_terminal_values),
                baseline |-> [type |-> "'parametrized_distributions'",
                              network |-> l.critic],
                baseline_optimizer |-> l.critic_optimizer,
                baseline_objective |-> [type |-> "'value'", value |-> "'action'"]]
         IN [f EXCEPT !.locals = new @@ l]

\* The keywords the parent constructor is called with, besides **kwargs.
SuperKeywords ==
    {"states", "actions", "max_episode_timesteps", "parallel_interactions",
     "config", "recorder", "preprocessing", "exploration", "variable_noise",
     "l2_regularization", "saver", "summarizer", "entropy_regularization"}
    \cup NestedNames

\* Lines 207-219: super().__init__(states=states, ..., **kwargs)
CallSuper(f) ==
    IF Raised(f) THEN f
    ELSE [f EXCEPT !.super_called = TRUE,
                   !.super_kwargs = [k \in SuperKeywords |-> f.locals[k]]
                                    @@ f.locals.kwargs]

\* Lines 156-219: the statements that follow the guard, in order.
BodyAfterGuard(f) ==
    CallSuper(BuildNested(AssignSpec(DeprecationChecks(f))))

\* A variant of the body with the guard placed after the deprecation checks.
InitBodyChecksFirst(f) ==
    CallSuper(BuildNested(AssignSpec(Guard(DeprecationChecks(f)))))

\* Lines 155-219: the whole body of __init__.
InitBody(f) == BodyAfterGuard(Guard(f))

(***************************************************************************)
(* The calls made to the constructor                                       *)
(***************************************************************************)

\* Most optional keywords a call supplies.
MaxSupplied == 3

\* The value a call passes for an optional keyword it supplies (other than
\* update_frequency); tracking is a keyword the signature does not name.
Passed ==
    [max_episode_timesteps |-> "500",
     network |-> "dict(type='layered')", use_beta_distribution |-> "False",
     start_updating |-> "64", learning_rate |-> "0.01",
     horizon |-> "3", discount |-> "0.9", predict_terminal_values |-> "True",
     critic |-> "dict(type='layered')", critic_optimizer |-> "2.0",
     preprocessing |-> None,
     exploration |-> "0.1", variable_noise |-> "0.2",
     l2_regularization |-> "0.3", entropy_regularization |-> "0.4",
     parallel_interactions |-> "2",
     estimate_terminal |-> "True", critic_network |-> "'auto'",
     tracking |-> "'all'"]

\* The values a call passes for update_frequency.
PassedFrequency == {"'batch_size'", "'never'", "1"}

Suppliable == DOMAIN Passed \cup {"update_frequency"}

\* The keyword dictionaries of the calls: the four required arguments and at
\* most MaxSupplied optional ones.
Calls ==
    { [p \in RequiredParams \cup S |->
          CASE p = "states" -> "dict(type='float', shape=(4,))"
            [] p = "actions" -> "dict(type='float', shape=())"
            [] p = "memory" -> ToString(m)
            [] p = "batch_size" -> ToString(b)
            [] p = "update_frequency" -> uf
            [] OTHER -> Passed[p]] :
        <<S, m, b, uf>> \in
            {S \in SUBSET Suppliable : Cardinality(S) <= MaxSupplied}
            \X (1..MaxCapacity) \X (1..MaxBatch) \X PassedFrequency }

(***************************************************************************)
(* StateValue: tensor specifications and signatures                        *)
(***************************************************************************)

\* Elements of the horizons tensor per batch item.
HorizonsLen == 2

\* num_args of the tf_function decorator of state_value.
NumArgs == 4

\* The keyword parameters of state_value.
StateValueParams == {"states", "horizons", "internals", "auxiliaries"}

\* TensorSpec(type=..., shape=...)
TensorSpec(type, shape) == [type |-> type, shape |-> shape]

\* TensorSpec.signature(batched=...): type and per-item shape, and whether a
\* leading batch dimension is added.
TensorSignature(spec, batched) ==
    [type |-> spec.type, shape |-> spec.shape, batched |-> batched]

\* TensorsSpec.signature(batched=...): the signature of every tensor named.
TensorsSignature(specs, batched) ==
    [n \in DOMAIN specs.tensors |-> TensorSignature(specs.tensors[n], batched)]

\* A specification attribute that is None, or not an attribute at all.
Missing == [missing |-> TRUE, tensors |-> EmptyDict]

\* A specification attribute holding the tensors given.
TensorsSpec(tensors) == [missing |-> FALSE, tensors |-> tensors]

\* Results of a method call.
Returns(value) == [outcome |-> "return", exc |-> None, value |-> value]

Raises(exc) == [outcome |-> "raise", exc |-> exc, value |-> EmptyDict]

\* super().<method>(function=function): left to the parent Module.
Delegates(method, function) ==
    [outcome |-> "super", exc |-> None,
     value |-> [method |-> method, function |-> function]]

\* A variant that leaves past_horizon to the parent Module.
input_signature_delegating(self, function) ==
    IF function = "state_value"
    THEN IF \/ self.states_spec.missing
            \/ self.internals_spec.missing
            \/ self.auxiliaries_spec.missing
         THEN Raises("AttributeError")
         ELSE Returns(
            [states |-> TensorsSignature(self.states_spec, TRUE),
             horizons |-> TensorSignature(TensorSpec("int", <<HorizonsLen>>), TRUE),
             internals |-> TensorsSignature(self.internals_spec, TRUE),
             auxiliaries |-> TensorsSignature(self.auxiliaries_spec, TRUE)])
    ELSE Delegates("input_signature", function)

\* A variant that declares no internals.
input_signature_no_internals(self, function) ==
    IF function = "past_horizon"
    THEN Returns(EmptyDict)
    ELSE IF function = "state_value"
    THEN IF \/ self.states_spec.missing
            \/ self.auxiliaries_spec.missing
         THEN Raises("AttributeError")
         ELSE Returns(
            [states |-> TensorsSignature(self.states_spec, TRUE),
             horizons |-> TensorSignature(TensorSpec("int", <<HorizonsLen>>), TRUE),
             auxiliaries |-> TensorsSignature(self.auxiliaries_spec, TRUE)])
    ELSE Delegates("input_signature", function)

\* StateValue.input_signature(function=...); reading an attribute that is
\* None or absent raises AttributeError.
input_signature(self, function) ==
    IF function = "past_horizon"
    THEN Returns(EmptyDict)
    ELSE IF function = "state_value"
    THEN IF \/ self.states_spec.missing
            \/ self.internals_spec.missing
            \/ self.auxiliaries_spec.missing
         THEN Raises("AttributeError")
         ELSE Returns(
            [states |-> TensorsSignature(self.states_spec, TRUE),
             horizons |-> TensorSignature(TensorSpec("int", <<HorizonsLen>>), TRUE),
             internals |-> TensorsSignature(self.internals_spec, TRUE),
             auxiliaries |-> TensorsSignature(self.auxiliaries_spec, TRUE)])
    ELSE Delegates("input_signature", function)

\* StateValue.output_signature(function=...)
output_signature(self, function) ==
    IF function = "past_horizon"
    THEN Returns([singleton |-> TensorSignature(TensorSpec("int", <<>>), FALSE)])
    ELSE IF function = "state_value"
    THEN Returns([singleton |-> TensorSignature(TensorSpec("float", <<>>), TRUE)])
    ELSE Delegates("output_signature", function)

\* A variant of state_value that answers with a constant estimate.
state_value_returning(self, states, horizons, internals, auxiliaries) ==
    [self |-> self, result |-> Returns([singleton |-> "0.0"])]

\* StateValue.state_value(states=..., horizons=..., internals=...,
\* auxiliaries=...): the object after the call and the call's result.
state_value(self, states, horizons, internals, auxiliaries) ==
    [self |-> self, result |-> Raises("NotImplementedError")]

\* StateValue.__init__: the attributes of the new object.  internals_spec is
\* not assigned here; a subclass may provide it.
StateValueInit(device, l2_regularization, name, states_spec, auxiliaries_spec, actions_spec, internals_spec) ==
    [module |-> [device |-> device, l2_regularization |-> l2_regularization,
                 name |-> name],
     states_spec |-> states_spec,
     auxiliaries_spec |-> auxiliaries_spec,
     actions_spec |-> actions_spec,
     internals_spec |-> internals_spec]

(***************************************************************************)
(* The inputs of the StateValue operations                                 *)
(***************************************************************************)

\* Most method calls made on one StateValue object.
MaxCalls == 2

StatesSpecs ==
    {Missing,
     TensorsSpec([state |-> TensorSpec("float", <<4>>)]),
     TensorsSpec([image |-> TensorSpec("float", <<8, 8>>),
                  position |-> TensorSpec("int", <<>>)])}

AuxiliariesSpecs ==
    {Missing, TensorsSpec(EmptyDict),
     TensorsSpec([action_mask |-> TensorSpec("bool", <<3>>)])}

ActionsSpecs ==
    {Missing, TensorsSpec([action |-> TensorSpec("float", <<>>)])}

InternalsSpecs ==
    {Missing, TensorsSpec(EmptyDict),
     TensorsSpec([lstm |-> TensorSpec("float", <<16>>)])}

\* The function names the signature methods are asked about.
Functions == {"past_horizon", "state_value", "regularize", "reset"}

\* The tensors state_value is called with.
Tensors == {"t0", "t1"}

(***************************************************************************)
(* State                                                                   *)
(***************************************************************************)

VARIABLES
    called,   \* whether the agent constructor has been called
    given,    \* the keywords of that call
    args,     \* the parameters as bound on entry
    frame,    \* the frame when the constructor is left
    module,   \* the StateValue object
    created,  \* the StateValue object as its constructor left it
    ncalls,   \* the method calls made on the StateValue object
    last      \* the last method call and its result

agentVars == <<called, given, args, frame>>

valueVars == <<module, created, ncalls, last>>

vars == <<called, given, args, frame, module, created, ncalls, last>>

NoModule == StateValueInit(None, None, None, Missing, Missing, Missing, Missing)

NoCall ==
    [method |-> "none", function |-> None, tensors |-> <<>>,
     result |-> Returns(EmptyDict)]

Init ==
    /\ called = FALSE
    /\ given = EmptyDict
    /\ args = EmptyDict
    /\ frame = Enter(EmptyDict)
    /\ module = NoModule
    /\ created = NoModule
    /\ ncalls = 0
    /\ last = NoCall

\* DeterministicPolicyGradient(**g), for a call g
Construct ==
    /\ ~called
    /\ \E g \in Calls :
          /\ given' = g
          /\ args' = Bind(g)
          /\ frame' = InitBody(Enter(Bind(g)))
    /\ called' = TRUE
    /\ UNCHANGED valueVars

Next == Construct

Spec == Init /\ [][Next]_vars

\* The statements of lines 156-219 run on the bound parameters of a call:
\* the constructor with the guard of line 155 lifted.
ConstructPastGuard ==
    /\ ~called
    /\ \E g \in Calls :
          /\ given' = g
          /\ args' = Bind(g)
          /\ frame' = BodyAfterGuard(Enter(Bind(g)))
    /\ called' = TRUE
    /\ UNCHANGED valueVars

NextPastGuard == ConstructPastGuard

SpecPastGuard == Init /\ [][NextPastGuard]_vars

\* The StateValue objects the constructor leaves.
StateValues ==
    { StateValueInit(None, l2, "'value'", ss, xs, as, is) :
        <<l2, ss, xs, as, is>> \in
            {None, "0.1"} \X StatesSpecs \X AuxiliariesSpecs \X ActionsSpecs
            \X InternalsSpecs }

\* A StateValue object has been constructed, no method called on it yet.
InitStateValue ==
    /\ called = FALSE
    /\ given = EmptyDict
    /\ args = EmptyDict
    /\ frame = Enter(EmptyDict)
    /\ module \in StateValues
    /\ created = module
    /\ ncalls = 0
    /\ last = NoCall

\* module.input_signature(function=fn)
InputSignature ==
    /\ ncalls < MaxCalls
    /\ \E fn \in Functions :
          last' = [method |-> "input_signature", function |-> fn,
                   tensors |-> <<>>, result |-> input_signature(module, fn)]
    /\ ncalls' = ncalls + 1
    /\ UNCHANGED <<module, created, agentVars>>

\* module.output_signature(function=fn)
OutputSignature ==
    /\ ncalls < MaxCalls
    /\ \E fn \in Functions :
          last' = [method |-> "output_signature", function |-> fn,
                   tensors |-> <<>>, result |-> output_signature(module, fn)]
    /\ ncalls' = ncalls + 1
    /\ UNCHANGED <<module, created, agentVars>>

\* module.state_value(states=s, horizons=h, internals=i, auxiliaries=x)
StateValueCall ==
    /\ ncalls < MaxCalls
    /\ \E s \in Tensors, h \in Tensors, i \in Tensors, x \in Tensors :
          LET r == state_value(module, s, h, i, x)
          IN /\ module' = r.self
             /\ last' = [method |-> "state_value", function |-> None,
                         tensors |-> <<s, h, i, x>>, result |-> r.result]
    /\ ncalls' = ncalls + 1
    /\ UNCHANGED <<created, agentVars>>

NextStateValue ==
    \/ InputSignature
    \/ OutputSignature
    \/ StateValueCall

SpecStateValue == InitStateValue /\ [][NextStateValue]_vars

(***************************************************************************)
(* Properties of the constructor as it is (Spec)                           *)
(***************************************************************************)

DeprecatedSupplied ==
    args.estimate_terminal # None \/ args.critic_network # None

\* C1: every call of the constructor, whatever its arguments, ends with the
\* TensorforceError 'Temporarily broken.' and never calls the parent
\* constructor.
C1_AlwaysTemporarilyBroken ==
    called =>
        /\ frame.error.exc = "TensorforceError"
        /\ frame.error.message = "Temporarily broken."
        /\ ~frame.super_called

\* C1 witness: a call with an optional, a deprecated and an extra keyword
\* has failed.
C1_Witness ==
    /\ called
    /\ {"learning_rate", "estimate_terminal", "tracking"} \subseteq DOMAIN given
    /\ frame.error.message = "Temporarily broken."

\* C2 as stated: a call with a deprecated argument ends with the deprecation
\* error naming the argument and its replacement, self.spec unassigned and
\* the parent constructor not called.
C2_DeprecationErrorRaised ==
    (called /\ DeprecatedSupplied) =>
        /\ frame.error.exc = "TensorforceError.deprecated"
        /\ frame.error.name = "DPG"
        /\ \/ /\ frame.error.argument = "estimate_terminal"
              /\ frame.error.replacement = "predict_terminal_values"
           \/ /\ frame.error.argument = "critic_network"
              /\ frame.error.replacement = "critic"
        /\ ~frame.spec_assigned
        /\ ~frame.super_called

\* C2 amended: a call with a deprecated argument fails before any other side
\* effect (self.spec unassigned, parent constructor not called), with the
\* error 'Temporarily broken.' of the guard that precedes the deprecation
\* checks, not with a deprecation error.
C2_DeprecatedFailsAtGuard ==
    (called /\ DeprecatedSupplied) =>
        /\ frame.error.exc = "TensorforceError"
        /\ frame.error.message = "Temporarily broken."
        /\ frame.error.argument = None
        /\ frame.error.replacement = None
        /\ ~frame.spec_assigned
        /\ ~frame.super_called

\* C2 witness: a call that supplied critic_network has failed.
C2_Witness ==
    /\ called
    /\ "critic_network" \in DOMAIN given
    /\ args.critic_network # None
    /\ Raised(frame)

\* C4 as stated: an option the call omits has the value its documentation
\* gives as the default.
C4_DocumentedDefaultsUsed ==
    called =>
        \A o \in DOMAIN DocDefaults :
            o \notin DOMAIN given => args[o] = DocDefaults[o]

(***************************************************************************)
(* Properties of the statements past the guard (SpecPastGuard)             *)
(***************************************************************************)

\* C5: in the nested specification passed to the parent constructor, the
\* optimizer is adam with the caller's learning rate, the objective is
\* deterministic_policy_gradient, the policy temperature is 0.0, the baseline
\* objective is {type value, value action}, and reward_estimation carries
\* the caller's horizon, discount and predict_terminal_values with the
\* constants 'late', False, True.
C5_FixedAndCopiedParts ==
    frame.super_called =>
        LET k == frame.super_kwargs
        IN /\ DOMAIN k.optimizer = {"type", "learning_rate"}
           /\ k.optimizer.type = "'adam'"
           /\ k.optimizer.learning_rate = args.learning_rate
           /\ k.objective = "'deterministic_policy_gradient'"
           /\ k.policy.temperature = "0.0"
           /\ DOMAIN k.baseline_objective = {"type", "value"}
           /\ k.baseline_objective.type = "'value'"
           /\ k.baseline_objective.value = "'action'"
           /\ DOMAIN k.reward_estimation =
                {"horizon", "discount", "predict_horizon_values",
                 "estimate_advantage", "predict_action_values",
                 "predict_terminal_values"}
           /\ k.reward_estimation.horizon = args.horizon
           /\ k.reward_estimation.discount = args.discount
           /\ k.reward_estimation.predict_terminal_values
                = args.predict_terminal_values
           /\ k.reward_estimation.predict_horizon_values = "'late'"
           /\ k.reward_estimation.estimate_advantage = "False"
           /\ k.reward_estimation.predict_action_values = "True"

\* C5 witness: the parent constructor was called for a call that supplied
\* predict_terminal_values, learning_rate and horizon.
C5_Witness ==
    /\ frame.super_called
    /\ {"predict_terminal_values", "learning_rate", "horizon"}
          \subseteq DOMAIN given
    /\ frame.super_kwargs.reward_estimation.predict_terminal_values = "True"

\* C9: the update specification has unit 'timesteps' and the caller's
\* batch_size, the key frequency exactly when update_frequency is not the
\* string 'batch_size', the key start exactly when start_updating is not
\* None, each with the caller's value, and no other key.
C9_UpdateSpecKeys ==
    frame.super_called =>
        LET u == frame.super_kwargs.update
        IN /\ DOMAIN u \subseteq {"unit", "batch_size", "frequency", "start"}
           /\ {"unit", "batch_size"} \subseteq DOMAIN u
           /\ u.unit = "'timesteps'"
           /\ u.batch_size = args.batch_size
           /\ "frequency" \in DOMAIN u <=> args.update_frequency # "'batch_size'"
           /\ "frequency" \in DOMAIN u => u.frequency = args.update_frequency
           /\ "start" \in DOMAIN u <=> args.start_updating # None
           /\ "start" \in DOMAIN u => u.start = args.start_updating

\* C9 witness: the caller passed update_frequency='batch_size' and a
\* start_updating, and the update specification was passed on.
C9_Witness ==
    /\ frame.super_called
    /\ {"update_frequency", "start_updating"} \subseteq DOMAIN given
    /\ given.update_frequency = "'batch_size'"
    /\ DOMAIN frame.super_kwargs.update = {"unit", "batch_size", "start"}

\* C10: once assigned, self.spec holds agent='dpg' and the non-deprecated
\* parameters as passed, and nothing else; its memory is the caller's
\* capacity while the parent constructor receives {type replay, capacity}.
C10_SpecRecordsFlatArguments ==
    frame.spec_assigned =>
        /\ DOMAIN frame.spec = {"agent"} \cup (Params \ DeprecatedParams)
        /\ frame.spec.agent = "'dpg'"
        /\ \A k \in DOMAIN frame.spec \ {"agent"} : frame.spec[k] = args[k]
        /\ DOMAIN frame.spec \cap DeprecatedParams = {}
        /\ DOMAIN frame.spec \cap DOMAIN args.kwargs = {}
        /\ "kwargs" \notin DOMAIN frame.spec
        /\ frame.spec.memory = given.memory
        /\ frame.super_called =>
              /\ DOMAIN frame.super_kwargs.memory = {"type", "capacity"}
              /\ frame.super_kwargs.memory.type = "'replay'"
              /\ frame.super_kwargs.memory.capacity = given.memory

\* C10 witness: self.spec was assigned and the parent constructor called for
\* a call with an extra keyword and the largest capacity.
C10_Witness ==
    /\ frame.spec_assigned
    /\ frame.super_called
    /\ "tracking" \in DOMAIN given
    /\ given.memory = ToString(MaxCapacity)

(***************************************************************************)
(* Properties of StateValue (SpecStateValue)                               *)
(***************************************************************************)

AllBatched(signatures) ==
    \A n \in DOMAIN signatures : signatures[n].batched

\* C6: the input signature of state_value, when the method returns one, has
\* exactly the entries states, horizons, internals and auxiliaries, the
\* keyword parameters of state_value, all batched, horizons an int tensor of
\* shape (2,); its output signature is one batched float scalar.
C6_StateValueSignature ==
    /\ (/\ last.method = "input_signature"
        /\ last.function = "state_value"
        /\ last.result.outcome = "return") =>
          LET sig == last.result.value
          IN /\ DOMAIN sig = {"states", "horizons", "internals", "auxiliaries"}
             /\ DOMAIN sig = StateValueParams
             /\ Cardinality(DOMAIN sig) = NumArgs
             /\ sig.horizons.type = "int"
             /\ sig.horizons.shape = <<2>>
             /\ sig.horizons.batched
             /\ AllBatched(sig.states)
             /\ AllBatched(sig.internals)
             /\ AllBatched(sig.auxiliaries)
    /\ (/\ last.method = "output_signature"
        /\ last.function = "state_value") =>
          /\ last.result.outcome = "return"
          /\ DOMAIN last.result.value = {"singleton"}
          /\ last.result.value.singleton.type = "float"
          /\ last.result.value.singleton.shape = <<>>
          /\ last.result.value.singleton.batched

\* C6 witness: the input signature of state_value was returned for a module
\* with two state tensors, an internal state and an action mask.
C6_Witness ==
    /\ last.method = "input_signature"
    /\ last.function = "state_value"
    /\ last.result.outcome = "return"
    /\ DOMAIN last.result.value.states = {"image", "position"}
    /\ DOMAIN last.result.value.internals = {"lstm"}
    /\ DOMAIN last.result.value.auxiliaries = {"action_mask"}

\* C7: for past_horizon the input signature is empty and the output
\* signature is one unbatched int scalar, both answered without the parent
\* Module; every name other than past_horizon and state_value is left to the
\* parent Module's method of the same name.
C7_PastHorizonAndDelegation ==
    /\ (last.method = "input_signature" /\ last.function = "past_horizon") =>
          /\ last.result.outcome = "return"
          /\ DOMAIN last.result.value = {}
    /\ (last.method = "output_signature" /\ last.function = "past_horizon") =>
          /\ last.result.outcome = "return"
          /\ DOMAIN last.result.value = {"singleton"}
          /\ last.result.value.singleton.type = "int"
          /\ last.result.value.singleton.shape = <<>>
          /\ ~last.result.value.singleton.batched
    /\ (/\ last.method \in {"input_signature", "output_signature"}
        /\ last.function \in {"past_horizon", "state_value"}) =>
          last.result.outcome # "super"
    /\ (/\ last.method \in {"input_signature", "output_signature"}
        /\ last.function \notin {"past_horizon", "state_value"}) =>
          /\ last.result.outcome = "super"
          /\ last.result.value.method = last.method
          /\ last.result.value.function = last.function

\* C7 witness: the input signature of past_horizon was asked for after
\* another call.
C7_Witness ==
    /\ last.method = "input_signature"
    /\ last.function = "past_horizon"
    /\ last.result.outcome = "return"
    /\ ncalls = 2

\* C8: a call of state_value raises NotImplementedError, returns no value
\* and leaves states_spec, auxiliaries_spec and actions_spec as the
\* constructor set them.
C8_StateValueAbstract ==
    last.method = "state_value" =>
        /\ last.result.outcome = "raise"
        /\ last.result.exc = "NotImplementedError"
        /\ DOMAIN last.result.value = {}
        /\ module.states_spec = created.states_spec
        /\ module.auxiliaries_spec = created.auxiliaries_spec
        /\ module.actions_spec = created.actions_spec

\* C8 witness: state_value was called twice on a module whose specifications
\* are all set.
C8_Witness ==
    /\ last.method = "state_value"
    /\ ncalls = 2
    /\ ~module.states_spec.missing
    /\ ~module.auxiliaries_spec.missing
    /\ ~module.actions_spec.missing

====
